---- MODULE Spec2Model ----
(***************************************************************************)
(* A model of the AutoKey scripting engine (lib/autokey/scripting/engine.py),*)
(* of the window-filter save functions of the front ends, and of the       *)
(* configuration functions the tests exercise.                             *)
(*                                                                         *)
(* Python values are records [type, v]: `type' is the Python type name and *)
(* `v' the payload.  Objects (folders, phrases) are identified by their    *)
(* index in the sequences `folders' and `items'.                           *)
(***************************************************************************)
EXTENDS Integers, Sequences, FiniteSets, TLC

\* ------------------------------------------------------------------ bounds
MaxFolders == 2
MaxItems == 2
\* The items of a configuration loaded from disk.
MaxLoaded == 3
\* The length of the modifier lists given to validateHotkey.
MaxModifiers == 2

\* ------------------------------------------------------------ Python values
Str(s) == [type |-> "str", v |-> s]
Bool(b) == [type |-> "bool", v |-> b]
FolderRef(i) == [type |-> "Folder", v |-> i]
\* None, and an object of an unrelated type (an int), with a payload of the
\* sort `d' the parameter's well-typed values carry.
NoneOf(d) == [type |-> "NoneType", v |-> d]
IntOf(d) == [type |-> "int", v |-> d]

Titles == {"t1", "t2"}
Abbrs == {"ab", "cd"}
Keys == {"k"}
\* Python's string order on the modifier names.
ModRank(m) == IF m = "<alt>" THEN 1 ELSE IF m = "<ctrl>" THEN 2 ELSE 3

VARIABLES
    folders,        \* every model.Folder object created: [title, temporary, folders, items, persisted]
    items,          \* every model.Phrase object added to a folder
    allFolders,     \* configManager.allFolders: sequence of folder indices
    last,           \* observation of the last Engine configuration call
    triggered_abbreviation,  \* Engine._triggered_abbreviation
    triggered_character,     \* Engine._triggered_character (Unset: the attribute does not exist)
    return_value,            \* Engine._return_value
    macro_args,              \* Engine._macro_args
    scriptLast,     \* observation of the last script-facing Engine call
    triggerGiven,   \* observer: the pair last given to _set_triggered_abbreviation
    CONFIG_FILE,         \* content of the configuration file, or Absent
    CONFIG_FILE_BACKUP,  \* content of the backup file, or Absent
    cfgLast,        \* observation of the last configmanager call
    roundTrip       \* observer of a back-up / loss / restore sequence

vars == <<folders, items, allFolders, last,
          triggered_abbreviation, triggered_character, return_value, macro_args, scriptLast,
          triggerGiven, CONFIG_FILE, CONFIG_FILE_BACKUP, cfgLast, roundTrip>>

engineVars == <<folders, items, allFolders, last>>
scriptVars == <<triggered_abbreviation, triggered_character, return_value, macro_args,
                scriptLast, triggerGiven>>
configVars == <<CONFIG_FILE, CONFIG_FILE_BACKUP, cfgLast, roundTrip>>

\* --------------------------------------------------------------- validation
\* Engine.validateType: raises ValueError (TRUE here) when the item is not
\* None and not an instance of type_.
validateType(item, type_) == item.type # "NoneType" /\ item.type # type_

\* ------------------------------------------------------------ model.Folder
\* model.Folder(title): a new folder is not temporary and has no children.
Folder(title) ==
    [title |-> title, temporary |-> FALSE, folders |-> <<>>, items |-> <<>>, persisted |-> 0]

\* Observation of a call: what it raised ("ok" when it returned), the index of
\* the object it returned (0: None or nothing), the index of the object it
\* constructed and attached (0: none), and how often it called
\* monitor.suspend(), configManager.config_altered() and persist().
Observation(op, args, result, ret, made, suspends, altered, persists) ==
    [op |-> op, args |-> args, result |-> result, ret |-> ret, made |-> made,
     suspends |-> suspends, altered |-> altered, persists |-> persists]

\* The first index of `seq' (a sequence of folder indices) whose folder has
\* the title, or 0: the loops of get_folder and create_folder.
RECURSIVE FirstWithTitle(_, _, _)
FirstWithTitle(seq, title, i) ==
    IF i > Len(seq) THEN 0
    ELSE IF folders[seq[i]].title = title THEN seq[i]
    ELSE FirstWithTitle(seq, title, i + 1)

\* Engine.get_folder(title)
get_folder(title) ==
    /\ last' = Observation("get_folder", [title |-> title], "ok",
                           FirstWithTitle(allFolders, title, 1), 0, 0, 0, 0)
    /\ UNCHANGED <<folders, items, allFolders>>
    /\ UNCHANGED <<scriptVars, configVars>>

\* As SearchedFolders, with the parent folder ignored.
SearchedFoldersTopLevel(parent_folder) == allFolders

\* The folders create_folder searches (lines 77-80).
SearchedFolders(parent_folder) ==
    IF parent_folder.type = "NoneType" THEN allFolders
    ELSE folders[parent_folder.v].folders

\* Lines 82-84: the first searched folder with the title (0: none).
ExistingFolder(parent_folder, title) ==
    FirstWithTitle(SearchedFolders(parent_folder), title.v, 1)

\* Lines 91-93: a non-temporary folder may not be created in a temporary parent.
FolderTemporaryMismatch(parent_folder, temporary) ==
    ~temporary.v /\ folders[parent_folder.v].temporary

\* As FinishFolder, with the folder persisted whatever `temporary' is.
FinishFolderAlwaysPersisted(f, temporary) ==
    IF ~temporary.v THEN [f EXCEPT !.persisted = @ + 1]
    ELSE [f EXCEPT !.temporary = TRUE, !.persisted = @ + 1]

\* Lines 95-98: the new folder is persisted, or marked temporary.
FinishFolder(f, temporary) ==
    IF ~temporary.v THEN [f EXCEPT !.persisted = @ + 1]
    ELSE [f EXCEPT !.temporary = TRUE]

\* Engine.create_folder(title, parent_folder, temporary)
create_folder(title, parent_folder, temporary) ==
    LET args == [title |-> title, parent_folder |-> parent_folder, temporary |-> temporary]
        obs(result, ret, made, persists) ==
            Observation("create_folder", args, result, ret, made, 0, 0, persists)
        new == Len(folders) + 1
        new_folder == FinishFolder(Folder(title.v), temporary)
    IN
    /\ UNCHANGED <<items, scriptVars, configVars>>
    /\ IF \/ validateType(title, "str")
          \/ validateType(parent_folder, "Folder")
          \/ validateType(temporary, "bool")
       THEN /\ last' = obs("ValueError", 0, 0, 0)
            /\ UNCHANGED <<folders, allFolders>>
       ELSE LET found == ExistingFolder(parent_folder, title) IN
            IF found # 0
            THEN /\ last' = obs("ok", found, 0, 0)
                 /\ UNCHANGED <<folders, allFolders>>
            ELSE /\ Len(folders) < MaxFolders
                 /\ IF parent_folder.type = "NoneType"
                    THEN /\ allFolders' = Append(allFolders, new)
                         /\ folders' = Append(folders, new_folder)
                         /\ last' = obs("ok", new, new, new_folder.persisted)
                    ELSE \* parent_folder.add_folder(new_folder) happens before the check
                         LET added == [folders EXCEPT ![parent_folder.v].folders = Append(@, new)] IN
                         /\ UNCHANGED allFolders
                         /\ IF FolderTemporaryMismatch(parent_folder, temporary)
                            THEN /\ folders' = Append(added, Folder(title.v))
                                 /\ last' = obs("ValueError", 0, new, 0)
                            ELSE /\ folders' = Append(added, new_folder)
                                 /\ last' = obs("ok", new, new, new_folder.persisted)

\* ------------------------------------------------------------ model.Phrase
\* model.Phrase(name, contents): no trigger, no window filter, not temporary,
\* not yet persisted.
Phrase(name) ==
    [class |-> "Phrase", description |-> name, abbreviations |-> <<>>, modes |-> {},
     modifiers |-> <<>>, hotKey |-> NoneOf(""), windowInfoRegex |-> NoneOf(""),
     isRecursive |-> FALSE, temporary |-> FALSE, persisted |-> 0, parent |-> 0]

\* Python's sorted() on a list of modifier names.
RECURSIVE Insert(_, _)
Insert(m, seq) ==
    IF seq = <<>> THEN <<m>>
    ELSE IF ModRank(m.v) < ModRank(Head(seq).v) THEN <<m>> \o seq
    ELSE <<Head(seq)>> \o Insert(m, Tail(seq))

\* As sorted, with the list left in the order given.
sortedAsGiven(seq) == seq

RECURSIVE sorted(_)
sorted(seq) == IF seq = <<>> THEN <<>> ELSE Insert(Head(seq), sorted(Tail(seq)))

\* Phrase.add_abbreviations(abbreviations): the strings are appended and the
\* phrase gets the abbreviation trigger mode.
add_abbreviations(p, abbreviations) ==
    [p EXCEPT !.abbreviations = @ \o [i \in 1..Len(abbreviations) |-> abbreviations[i].v],
              !.modes = @ \cup {"ABBREVIATION"}]

\* Phrase.set_hotkey(modifiers, key): the modifiers are kept sorted.
set_hotkey(p, modifiers, key) ==
    [p EXCEPT !.modifiers = sorted(modifiers), !.hotKey = key,
              !.modes = @ \cup {"HOTKEY"}]

\* configManager.allItems: every phrase of every folder.
allItems == items

\* configManager.check_abbreviation_unique(abbr, None, None)[0]: a linear scan
\* over the existing items.
check_abbreviation_unique(abbr) ==
    \A i \in 1..Len(allItems) :
        ~("ABBREVIATION" \in allItems[i].modes
          /\ \E j \in 1..Len(allItems[i].abbreviations) : allItems[i].abbreviations[j] = abbr)

\* configManager.check_hotkey_unique(modifiers, key, None, None)[0]
check_hotkey_unique(modifiers, key) ==
    \A i \in 1..Len(allItems) :
        ~("HOTKEY" \in allItems[i].modes
          /\ allItems[i].modifiers = modifiers
          /\ allItems[i].hotKey = key)

\* ConfigManager.item_has_same_hotkey(item, modifiers, hotKey, None): the item
\* is bound to the key with the same modifiers, in whatever order they are given.
item_has_same_hotkey(item, modifiers, hotKey) ==
    /\ "HOTKEY" \in item.modes
    /\ item.modifiers = sorted(modifiers)
    /\ item.hotKey = hotKey

\* ConfigManager.get_item_with_hotkey(modifiers, hotKey, None): the first item
\* with that hotkey (0: None).
RECURSIVE ItemWithHotkeyFrom(_, _, _)
ItemWithHotkeyFrom(i, modifiers, hotKey) ==
    IF i > Len(allItems) THEN 0
    ELSE IF item_has_same_hotkey(allItems[i], modifiers, hotKey) THEN i
    ELSE ItemWithHotkeyFrom(i + 1, modifiers, hotKey)

get_item_with_hotkey(modifiers, hotKey) == ItemWithHotkeyFrom(1, modifiers, hotKey)

\* ------------------------------------------------------- Engine.create_phrase
\* Engine.validateAbbreviations: raises unless None, a str, or a list of str.
validateAbbreviations(abbreviations) ==
    /\ abbreviations.type # "NoneType"
    /\ abbreviations.type # "str"
    /\ \/ abbreviations.type # "list"
       \/ \E i \in 1..Len(abbreviations.v) : abbreviations.v[i].type # "str"

\* Engine.isValidHotkeyType
isValidHotkeyType(item) == item.type \in {"str", "Key"}

\* As validateHotkey, with a single str or Key taken for the modifiers.
validateHotkeyBareModifier(hotkey) ==
    /\ hotkey.type # "NoneType"
    /\ \/ hotkey.type # "tuple"
       \/ Len(hotkey.v) # 2
       \/ IF hotkey.v[1].type = "list"
          THEN \E i \in 1..Len(hotkey.v[1].v) : ~isValidHotkeyType(hotkey.v[1].v[i])
          ELSE ~isValidHotkeyType(hotkey.v[1])
       \/ ~isValidHotkeyType(hotkey.v[2])

\* Engine.validateHotkey: raises unless None or a 2-tuple (list of str/Key, str/Key).
validateHotkey(hotkey) ==
    /\ hotkey.type # "NoneType"
    /\ \/ hotkey.type # "tuple"
       \/ Len(hotkey.v) # 2
       \/ IF hotkey.v[1].type = "list"
          THEN \E i \in 1..Len(hotkey.v[1].v) : ~isValidHotkeyType(hotkey.v[1].v[i])
          ELSE TRUE
       \/ ~isValidHotkeyType(hotkey.v[2])

\* Python truth value of the hotkey and window_filter arguments: None, the
\* empty string and the empty tuple are false.
Truthy(x) ==
    IF x.type = "NoneType" THEN FALSE
    ELSE IF x.type = "str" THEN x.v # ""
    ELSE IF x.type \in {"list", "tuple"} THEN Len(x.v) > 0
    ELSE TRUE

\* Python truth value of the abbreviations argument; a str argument is held as
\* the one-element sequence of itself.
TruthyAbbreviations(abbreviations) ==
    IF abbreviations.type = "str" THEN abbreviations.v[1].v # ""
    ELSE Truthy(abbreviations)

\* Lines 185-194: the type checks of create_phrase, in the order of the code.
PhraseParamError(a) ==
    \/ validateType(a.folder, "Folder")
    \/ validateType(a.name, "str")
    \/ validateType(a.contents, "str")
    \/ validateAbbreviations(a.abbreviations)
    \/ validateHotkey(a.hotkey)
    \/ validateType(a.send_mode, "SendMode")
    \/ validateType(a.window_filter, "str")
    \/ validateType(a.show_in_system_tray, "bool")
    \/ validateType(a.always_prompt, "bool")
    \/ validateType(a.temporary, "bool")

\* Lines 197-198: a single string becomes a one-element list (a str argument
\* is held as the one-element sequence of itself).
AbbreviationList(abbreviations) == abbreviations.v

\* As AbbreviationError, with the loop of line 203 left after its first turn.
AbbreviationErrorFirstOnly(a) ==
    /\ TruthyAbbreviations(a.abbreviations)
    /\ \/ a.abbreviations.type \notin {"str", "list", "tuple"}
       \/ ~check_abbreviation_unique(AbbreviationList(a.abbreviations)[1].v)

\* Lines 196-205: an abbreviation argument that is not iterable, or that names
\* an abbreviation already in use, raises ValueError.
AbbreviationError(a) ==
    /\ TruthyAbbreviations(a.abbreviations)
    /\ \/ a.abbreviations.type \notin {"str", "list", "tuple"}
       \/ \E i \in 1..Len(AbbreviationList(a.abbreviations)) :
              ~check_abbreviation_unique(AbbreviationList(a.abbreviations)[i].v)

\* As HotkeyError, with the modifiers compared in the order given.
HotkeyErrorUnsorted(a) ==
    /\ Truthy(a.hotkey)
    /\ ~check_hotkey_unique(a.hotkey.v[1].v, a.hotkey.v[2])

\* Lines 206-209: the hotkey, with its modifiers sorted, is already in use.
HotkeyError(a) ==
    /\ Truthy(a.hotkey)
    /\ ~check_hotkey_unique(sorted(a.hotkey.v[1].v), a.hotkey.v[2])

\* Lines 211-213: a phrase in a temporary folder must be given temporary=True.
PhraseTemporaryMismatch(a) ==
    folders[a.folder.v].temporary /\ ~a.temporary.v

\* What create_phrase raises before it suspends the monitor ("ok": nothing).
PhrasePreError(a) ==
    IF PhraseParamError(a) THEN "ValueError"
    ELSE IF AbbreviationError(a) THEN "ValueError"
    ELSE IF HotkeyError(a) THEN "ValueError"
    ELSE IF a.folder.type = "NoneType" THEN "AttributeError"   \* line 211: None.temporary
    ELSE IF PhraseTemporaryMismatch(a) THEN "ValueError"
    ELSE "ok"

\* Phrase.set_window_titles(regex) raises re.error on an invalid regex.
InvalidRegex == "("

\* What item.set_window_titles(regex) raises ("ok": nothing): re.error when
\* the text does not compile.
WindowTitlesOutcome(regex) == IF regex.v = InvalidRegex THEN "re.error" ELSE "ok"

\* item.set_window_titles(regex), when it does not raise.
set_window_titles(p, regex) == [p EXCEPT !.windowInfoRegex = regex]

\* item.set_filter_recursive(recurse)
set_filter_recursive(p, recurse) == [p EXCEPT !.isRecursive = recurse.v]

\* Lines 217-228: the phrase object built inside the try block.
BuildPhrase(a) ==
    LET p0 == Phrase(a.name)
        p1 == IF TruthyAbbreviations(a.abbreviations)
              THEN add_abbreviations(p0, AbbreviationList(a.abbreviations)) ELSE p0
        p2 == IF Truthy(a.hotkey) THEN set_hotkey(p1, a.hotkey.v[1].v, a.hotkey.v[2]) ELSE p1
        p3 == IF Truthy(a.window_filter) THEN set_window_titles(p2, a.window_filter) ELSE p2
    IN [p3 EXCEPT !.temporary = a.temporary.v]

\* Lines 233-234: the phrase is persisted unless it is temporary.
PersistPhrase(p, temporary) ==
    IF ~temporary.v THEN [p EXCEPT !.persisted = @ + 1] ELSE p

\* Folder.add_item(p): the item joins the folder and knows its parent.
add_item(fs, f, i) == [fs EXCEPT ![f].items = Append(@, i)]

\* Engine.create_phrase(folder, name, contents, abbreviations, hotkey, send_mode,
\*                      window_filter, show_in_system_tray, always_prompt, temporary)
create_phrase(a) ==
    LET obs(result, ret, n, persists) ==
            Observation("create_phrase", a, result, ret, ret, n, n, persists)
        new == Len(items) + 1
        p == PersistPhrase(BuildPhrase(a), a.temporary)
    IN
    /\ UNCHANGED <<allFolders, scriptVars, configVars>>
    /\ IF PhrasePreError(a) # "ok"
       THEN /\ last' = obs(PhrasePreError(a), 0, 0, 0)
            /\ UNCHANGED <<folders, items>>
       ELSE IF Truthy(a.window_filter) /\ a.window_filter.v = InvalidRegex
       THEN \* raised inside try: the finally block still runs
            /\ last' = obs("re.error", 0, 1, 0)
            /\ UNCHANGED <<folders, items>>
       ELSE /\ Len(items) < MaxItems
            /\ items' = Append(items, [p EXCEPT !.parent = a.folder.v])
            /\ folders' = add_item(folders, a.folder.v, new)
            /\ last' = obs("ok", new, 1, p.persisted)

\* Engine.create_abbreviation(folder, description, abbr, contents)
create_abbreviation(folder, description, abbr) ==
    LET args == [folder |-> folder, description |-> description, abbr |-> abbr]
        obs(result, made, n) == Observation("create_abbreviation", args, result, 0, made, n, n, n)
        new == Len(items) + 1
        p == [Phrase(description) EXCEPT !.modes = @ \cup {"ABBREVIATION"},
                                         !.abbreviations = <<abbr.v>>,
                                         !.persisted = @ + 1,
                                         !.parent = folder.v]
    IN
    /\ UNCHANGED <<allFolders, scriptVars, configVars>>
    /\ IF ~check_abbreviation_unique(abbr.v)
       THEN /\ last' = obs("Exception", 0, 0)
            /\ UNCHANGED <<folders, items>>
       ELSE /\ Len(items) < MaxItems
            /\ items' = Append(items, p)
            /\ folders' = add_item(folders, folder.v, new)
            /\ last' = obs("ok", new, 1)

\* Engine.create_hotkey(folder, description, modifiers, key, contents)
create_hotkey(folder, description, modifiers, key) ==
    LET args == [folder |-> folder, description |-> description,
                 modifiers |-> modifiers, key |-> key]
        obs(result, made, n) == Observation("create_hotkey", args, result, 0, made, n, n, n)
        new == Len(items) + 1
        p == [set_hotkey(Phrase(description), sorted(modifiers), key)
                 EXCEPT !.persisted = @ + 1, !.parent = folder.v]
    IN
    /\ UNCHANGED <<allFolders, scriptVars, configVars>>
    /\ IF ~check_hotkey_unique(sorted(modifiers), key)
       THEN /\ last' = obs("Exception", 0, 0)
            /\ UNCHANGED <<folders, items>>
       ELSE /\ Len(items) < MaxItems
            /\ items' = Append(items, p)
            /\ folders' = add_item(folders, folder.v, new)
            /\ last' = obs("ok", new, 1)

\* A call of Engine.validateHotkey(hotkey), as line 189 makes it.
call_validateHotkey(hotkey) ==
    /\ last' = Observation("validateHotkey", [hotkey |-> hotkey],
                           IF validateHotkey(hotkey) THEN "ValueError" ELSE "ok", 0, 0, 0, 0, 0)
    /\ UNCHANGED <<folders, items, allFolders, scriptVars, configVars>>

\* A call of configManager.get_item_with_hotkey(modifiers, hotKey, None).
call_get_item_with_hotkey(modifiers, hotKey) ==
    /\ last' = Observation("get_item_with_hotkey", [modifiers |-> modifiers, key |-> hotKey],
                           "ok", get_item_with_hotkey(modifiers, hotKey), 0, 0, 0, 0)
    /\ UNCHANGED <<folders, items, allFolders, scriptVars, configVars>>

\* A call of ConfigManager.item_has_same_hotkey(item, modifiers, hotKey, None);
\* the observation returns the item when the answer is True.
call_item_has_same_hotkey(i, modifiers, hotKey) ==
    /\ last' = Observation("item_has_same_hotkey",
                           [item |-> i, modifiers |-> modifiers, key |-> hotKey], "ok",
                           IF item_has_same_hotkey(items[i], modifiers, hotKey) THEN i ELSE 0,
                           0, 0, 0, 0)
    /\ UNCHANGED <<folders, items, allFolders, scriptVars, configVars>>

\* ------------------------------------------- saving a window-filter dialog
\* As save_outcome, with the function left when the regex is refused.
save_outcomeReturnsOnError(windowFilterDialog, item) ==
    LET regex == windowFilterDialog.filter_text
        raised == WindowTitlesOutcome(regex)
    IN IF raised = "ok"
       THEN [result |-> "ok",
             item |-> set_filter_recursive(set_window_titles(item, regex),
                                           windowFilterDialog.is_recursive)]
       ELSE [result |-> "ok", item |-> item]

\* baseUIActions.save(windowFilterDialog, item): what it raises and the item
\* as it leaves it.  re.error is caught and logged; anything else propagates.
save_outcome(windowFilterDialog, item) ==
    LET regex == windowFilterDialog.filter_text
        raised == WindowTitlesOutcome(regex)
        titled == IF raised = "ok" THEN set_window_titles(item, regex) ELSE item
    IN IF raised \in {"ok", "re.error"}
       THEN [result |-> "ok",
             item |-> set_filter_recursive(titled, windowFilterDialog.is_recursive)]
       ELSE [result |-> raised, item |-> titled]

\* UI_common_functions.save_item_filter(app, item)
save_item_filter_outcome(app, item) ==
    LET filter_regex == app.filter_text
        raised == WindowTitlesOutcome(filter_regex)
        titled == IF raised = "ok" THEN set_window_titles(item, filter_regex) ELSE item
    IN IF raised \in {"ok", "re.error"}
       THEN [result |-> "ok", item |-> set_filter_recursive(titled, app.is_recursive)]
       ELSE [result |-> raised, item |-> titled]

\* baseUIActions.save called on the dialog and the i-th item.
save(windowFilterDialog, i) ==
    LET out == save_outcome(windowFilterDialog, items[i]) IN
    /\ items' = [items EXCEPT ![i] = out.item]
    /\ last' = Observation("save", [dialog |-> windowFilterDialog, item |-> i],
                           out.result, 0, 0, 0, 0, 0)
    /\ UNCHANGED <<folders, allFolders, scriptVars, configVars>>

\* UI_common_functions.save_item_filter called on the dialog and the i-th item.
save_item_filter(app, i) ==
    LET out == save_item_filter_outcome(app, items[i]) IN
    /\ items' = [items EXCEPT ![i] = out.item]
    /\ last' = Observation("save_item_filter", [dialog |-> app, item |-> i],
                           out.result, 0, 0, 0, 0, 0)
    /\ UNCHANGED <<folders, allFolders, scriptVars, configVars>>

\* ------------------------------------------- Engine: script-facing state
\* An attribute that was never assigned: reading it raises AttributeError.
Unset == [type |-> "unset", v |-> ""]

ScriptObservation(op, args, result, ret) ==
    [op |-> op, args |-> args, result |-> result, ret |-> ret]

\* Engine.__init__, lines 37-39: _triggered_character is not assigned.
InitScript ==
    /\ triggered_abbreviation = NoneOf("")
    /\ triggered_character = Unset
    /\ return_value = Str("")
    /\ macro_args = <<>>
    /\ scriptLast = ScriptObservation("none", <<>>, "ok", <<>>)
    /\ triggerGiven = <<NoneOf(""), NoneOf("")>>

\* Engine._set_triggered_abbreviation(abbreviation, trigger_character)
set_triggered_abbreviation(abbreviation, trigger_character) ==
    /\ triggered_abbreviation' = abbreviation
    /\ triggered_character' = trigger_character
    /\ triggerGiven' = <<abbreviation, trigger_character>>
    /\ scriptLast' = ScriptObservation("_set_triggered_abbreviation",
                                       <<abbreviation, trigger_character>>, "ok", <<>>)
    /\ UNCHANGED <<return_value, macro_args, engineVars, configVars>>

\* Engine.get_triggered_abbreviation()
get_triggered_abbreviation ==
    /\ scriptLast' =
           IF triggered_character = Unset
           THEN ScriptObservation("get_triggered_abbreviation", <<>>, "AttributeError", <<>>)
           ELSE ScriptObservation("get_triggered_abbreviation", <<>>, "ok",
                                  <<triggered_abbreviation, triggered_character>>)
    /\ UNCHANGED <<triggered_abbreviation, triggered_character, triggerGiven, return_value,
                   macro_args, engineVars, configVars>>

\* Engine.set_return_value(val)
set_return_value(val) ==
    /\ return_value' = val
    /\ scriptLast' = ScriptObservation("set_return_value", <<val>>, "ok", <<>>)
    /\ UNCHANGED <<triggered_abbreviation, triggered_character, triggerGiven, macro_args,
                   engineVars, configVars>>

\* Engine._get_return_value(): the value is returned and reset to ''.
get_return_value ==
    /\ return_value' = Str("")
    /\ scriptLast' = ScriptObservation("_get_return_value", <<>>, "ok", <<return_value>>)
    /\ UNCHANGED <<triggered_abbreviation, triggered_character, triggerGiven, macro_args,
                   engineVars, configVars>>

\* ------------------------------------------------------ Engine.run_script
\* model.Script(description, code): an item of the same shape as a phrase.
Script(description) == [Phrase(description) EXCEPT !.class = "Script"]

\* As TargetScriptFrom, with the class of the item not looked at.
RECURSIVE TargetScriptFromAnyItem(_, _, _)
TargetScriptFromAnyItem(i, description, target_script) ==
    IF i > Len(allItems) THEN target_script
    ELSE TargetScriptFromAnyItem(i + 1, description,
             IF allItems[i].description = description THEN i ELSE target_script)

\* Lines 373-376: the loop over allItems from the i-th item on; every Script
\* with the description replaces the target found so far (0: None).
RECURSIVE TargetScriptFrom(_, _, _)
TargetScriptFrom(i, description, target_script) ==
    IF i > Len(allItems) THEN target_script
    ELSE TargetScriptFrom(i + 1, description,
             IF allItems[i].description = description /\ allItems[i].class = "Script"
             THEN i ELSE target_script)

\* Python's str(x) of a string or None.
PyStr(x) == IF x.type = "NoneType" THEN "None" ELSE x.v

\* Lines 373-381: what run_script raises, with its message, and the calls of
\* runner.run_subscript it makes.
run_script_outcome(description) ==
    LET target_script == TargetScriptFrom(1, description, 0) IN
    IF target_script # 0
    THEN [result |-> "ok", message |-> "", runs |-> <<target_script>>]
    ELSE [result |-> "Exception",
          message |-> "No script with description '" \o PyStr(description) \o "' found",
          runs |-> <<>>]

\* Engine.run_script(description)
run_script(description) ==
    LET out == run_script_outcome(description) IN
    /\ scriptLast' = ScriptObservation("run_script", <<description>>, out.result, out.runs)
    /\ UNCHANGED <<triggered_abbreviation, triggered_character, triggerGiven, return_value,
                   macro_args, engineVars, configVars>>

\* Python's str.split(','), on a string held as its sequence of characters;
\* `word' is the piece read so far.
RECURSIVE split(_, _)
split(chars, word) ==
    IF chars = <<>> THEN <<word>>
    ELSE IF Head(chars) = "," THEN <<word>> \o split(Tail(chars), "")
    ELSE split(Tail(chars), word \o Head(chars))

\* Engine.run_script_from_macro(args): the exception of run_script becomes
\* the return value.
run_script_from_macro(args) ==
    LET out == run_script_outcome(args.name) IN
    /\ macro_args' = split(args.args, "")
    /\ return_value' = IF out.result = "ok" THEN return_value
                       ELSE Str("{ERROR: " \o out.message \o "}")
    /\ scriptLast' = ScriptObservation("run_script_from_macro", <<args>>, "ok", out.runs)
    /\ UNCHANGED <<triggered_abbreviation, triggered_character, triggerGiven,
                   engineVars, configVars>>

\* Engine.get_macro_arguments()
get_macro_arguments ==
    /\ scriptLast' = ScriptObservation("get_macro_arguments", <<>>, "ok", macro_args)
    /\ UNCHANGED <<triggered_abbreviation, triggered_character, triggerGiven, return_value,
                   macro_args, engineVars, configVars>>

\* ------------------------------------------- configmanager: backup of the file
Absent == "<absent>"
ConfigContents == {"json1", "json2", "json3", "corrupt"}

\* Observation of a call: the error it was given, what it raised, how often it
\* invoked _restore_backup_config, and the two files as they were before it.
ConfigObservation(op, error, result, restores) ==
    [op |-> op, error |-> error, result |-> result, restores |-> restores,
     config_before |-> CONFIG_FILE, backup_before |-> CONFIG_FILE_BACKUP]

\* The observer of a back-up, loss of the configuration file, restore sequence.
NoTrip == [stage |-> "none", content |-> Absent]

InitConfig ==
    /\ CONFIG_FILE = Absent
    /\ CONFIG_FILE_BACKUP = Absent
    /\ cfgLast = [op |-> "none", error |-> "", result |-> "ok", restores |-> 0,
                  config_before |-> Absent, backup_before |-> Absent]
    /\ roundTrip = NoTrip

\* As copy2, creating an empty destination file.
copy2Empty(src) == ""

\* shutil.copy2(src, dst): the content dst holds afterwards.
copy2(src) == src

\* The configuration is saved: the file holds new content.
save_config(content) ==
    /\ CONFIG_FILE' = content
    /\ cfgLast' = ConfigObservation("save_config", "", "ok", 0)
    /\ roundTrip' = NoTrip
    /\ UNCHANGED <<CONFIG_FILE_BACKUP, engineVars, scriptVars>>

\* The configuration file is lost.
lose_config ==
    /\ CONFIG_FILE # Absent
    /\ CONFIG_FILE' = Absent
    /\ cfgLast' = ConfigObservation("lose_config", "", "ok", 0)
    /\ roundTrip' = IF roundTrip.stage = "backed_up"
                    THEN [roundTrip EXCEPT !.stage = "lost"] ELSE NoTrip
    /\ UNCHANGED <<CONFIG_FILE_BACKUP, engineVars, scriptVars>>

\* configmanager._back_up_config(): the configuration file is copied to the
\* backup path.
back_up_config ==
    /\ UNCHANGED <<CONFIG_FILE, engineVars, scriptVars>>
    /\ IF CONFIG_FILE = Absent
       THEN /\ cfgLast' = ConfigObservation("_back_up_config", "", "FileNotFoundError", 0)
            /\ roundTrip' = NoTrip
            /\ UNCHANGED CONFIG_FILE_BACKUP
       ELSE /\ CONFIG_FILE_BACKUP' = copy2(CONFIG_FILE)
            /\ cfgLast' = ConfigObservation("_back_up_config", "", "ok", 0)
            /\ roundTrip' = [stage |-> "backed_up", content |-> CONFIG_FILE]

\* The effect of _restore_backup_config on the files: the backup is copied to
\* the configuration path.
RestoreFiles ==
    /\ CONFIG_FILE' = copy2(CONFIG_FILE_BACKUP)
    /\ UNCHANGED CONFIG_FILE_BACKUP

\* configmanager._restore_backup_config()
restore_backup_config ==
    /\ UNCHANGED <<engineVars, scriptVars>>
    /\ IF CONFIG_FILE_BACKUP = Absent
       THEN /\ cfgLast' = ConfigObservation("_restore_backup_config", "", "FileNotFoundError", 0)
            /\ roundTrip' = NoTrip
            /\ UNCHANGED <<CONFIG_FILE, CONFIG_FILE_BACKUP>>
       ELSE /\ RestoreFiles
            /\ cfgLast' = ConfigObservation("_restore_backup_config", "", "ok", 1)
            /\ roundTrip' = IF roundTrip.stage = "lost"
                            THEN [roundTrip EXCEPT !.stage = "restored"] ELSE NoTrip

\* As BackupExists, looking at the configuration file instead of the backup.
ConfigExists == CONFIG_FILE # Absent

\* os.path.exists(CONFIG_FILE_BACKUP), the test _recover_config_backup makes.
BackupExists == CONFIG_FILE_BACKUP # Absent

\* configmanager._recover_config_backup(auto_start, error): with a backup the
\* backup is restored; without one the error is raised again.
recover_config_backup(error) ==
    /\ roundTrip' = NoTrip
    /\ UNCHANGED <<engineVars, scriptVars>>
    /\ IF BackupExists
       THEN /\ RestoreFiles
            /\ cfgLast' = ConfigObservation("_recover_config_backup", error, "ok", 1)
       ELSE /\ cfgLast' = ConfigObservation("_recover_config_backup", error, error, 0)
            /\ UNCHANGED <<CONFIG_FILE, CONFIG_FILE_BACKUP>>

\* ------------------------------------------------------------------ inputs
FolderArgs == {FolderRef(i) : i \in 1..Len(folders)}
BoolArgs == {Bool(TRUE), Bool(FALSE)}

\* The calls of create_folder: every title, with or without a parent folder,
\* temporary or not; and one call for each argument given with a wrong type.
FolderCalls ==
    {[title |-> Str(t), parent_folder |-> p, temporary |-> tmp] :
        t \in Titles, p \in {NoneOf(0)} \cup FolderArgs, tmp \in BoolArgs}
    \cup {[title |-> IntOf(""), parent_folder |-> NoneOf(0), temporary |-> Bool(FALSE)],
          [title |-> Str("t1"), parent_folder |-> IntOf(0), temporary |-> Bool(FALSE)],
          [title |-> Str("t1"), parent_folder |-> NoneOf(0), temporary |-> IntOf(FALSE)]}
ModLists == {<<>>, <<Str("<alt>"), Str("<ctrl>")>>, <<Str("<ctrl>"), Str("<alt>")>>}
KeyArgs == {Str(k) : k \in Keys}
\* Well-formed hotkey and abbreviations arguments.
HotkeyArgs ==
    {NoneOf(<<>>)}
    \cup {[type |-> "tuple", v |-> <<[type |-> "list", v |-> m], k>>] : m \in ModLists, k \in KeyArgs}
AbbreviationArgs ==
    {NoneOf(<<>>), [type |-> "list", v |-> <<Str("ab"), Str("cd")>>]}
    \cup {[type |-> "str", v |-> <<Str(s)>>] : s \in Abbrs}

\* A call with every optional argument at its default.
DefaultPhraseArgs(f) ==
    [folder |-> f, name |-> Str("name"), contents |-> Str("contents"),
     abbreviations |-> NoneOf(<<>>), hotkey |-> NoneOf(<<>>),
     send_mode |-> [type |-> "SendMode", v |-> "KEYBOARD"],
     window_filter |-> NoneOf(""), show_in_system_tray |-> Bool(FALSE),
     always_prompt |-> Bool(FALSE), temporary |-> Bool(FALSE)]

\* The default call with one argument changed.
OneOffPhraseArgs(f) ==
    {[DefaultPhraseArgs(f) EXCEPT !.folder = NoneOf(0)],
     [DefaultPhraseArgs(f) EXCEPT !.folder = IntOf(0)],
     [DefaultPhraseArgs(f) EXCEPT !.name = NoneOf("")],
     [DefaultPhraseArgs(f) EXCEPT !.name = IntOf("")],
     [DefaultPhraseArgs(f) EXCEPT !.contents = NoneOf("")],
     [DefaultPhraseArgs(f) EXCEPT !.contents = IntOf("")],
     [DefaultPhraseArgs(f) EXCEPT !.abbreviations = IntOf(<<>>)],
     [DefaultPhraseArgs(f) EXCEPT !.abbreviations = [type |-> "list", v |-> <<Str("ab"), IntOf("")>>]],
     [DefaultPhraseArgs(f) EXCEPT !.abbreviations = [type |-> "tuple", v |-> <<Str("ab")>>]],
     [DefaultPhraseArgs(f) EXCEPT !.hotkey = IntOf(<<>>)],
     [DefaultPhraseArgs(f) EXCEPT !.send_mode = IntOf("")],
     [DefaultPhraseArgs(f) EXCEPT !.window_filter = Str("konsole")],
     [DefaultPhraseArgs(f) EXCEPT !.window_filter = Str(InvalidRegex)],
     [DefaultPhraseArgs(f) EXCEPT !.window_filter = IntOf("")],
     [DefaultPhraseArgs(f) EXCEPT !.show_in_system_tray = IntOf(FALSE)],
     [DefaultPhraseArgs(f) EXCEPT !.always_prompt = IntOf(FALSE)],
     [DefaultPhraseArgs(f) EXCEPT !.temporary = IntOf(FALSE)]}

\* The calls of create_phrase made on a loaded configuration: in the first
\* folder, each abbreviations argument, each hotkey argument and one call with
\* both; in every folder, temporary or not, a call without a trigger and one
\* with an abbreviation; and the default call with one argument changed.
PhraseArgs ==
    {[DefaultPhraseArgs(FolderRef(1)) EXCEPT !.abbreviations = ab] : ab \in AbbreviationArgs}
    \cup {[DefaultPhraseArgs(FolderRef(1)) EXCEPT !.hotkey = hk] : hk \in HotkeyArgs}
    \cup {[DefaultPhraseArgs(FolderRef(1)) EXCEPT
              !.abbreviations = [type |-> "str", v |-> <<Str("cd")>>],
              !.hotkey = [type |-> "tuple", v |-> <<[type |-> "list", v |-> <<>>], Str("k")>>]]}
    \cup {[DefaultPhraseArgs(f) EXCEPT !.abbreviations = ab, !.temporary = t] :
             f \in FolderArgs, t \in BoolArgs,
             ab \in {NoneOf(<<>>), [type |-> "str", v |-> <<Str("ab")>>]}}
    \cup OneOffPhraseArgs(FolderRef(1))

\* The calls of create_phrase made while folders are being created.
BasicPhraseArgs ==
    {[DefaultPhraseArgs(f) EXCEPT !.temporary = t] : f \in FolderArgs, t \in BoolArgs}

NoObservation == Observation("none", [none |-> TRUE], "ok", 0, 0, 0, 0, 0)

\* ------------------------------------------------------------ specifications
\* A new Engine on an empty configuration.
Init ==
    /\ folders = <<>>
    /\ items = <<>>
    /\ allFolders = <<>>
    /\ last = NoObservation
    /\ InitScript
    /\ InitConfig

\* Folders and phrases created from scratch.
Next ==
    \/ \E t \in Titles : get_folder(t)
    \/ \E c \in FolderCalls : create_folder(c.title, c.parent_folder, c.temporary)
    \/ \E a \in BasicPhraseArgs : create_phrase(a)

Spec == Init /\ [][Next]_vars

\* A new Engine on a loaded configuration: a persisted folder "t1" and a
\* temporary folder "t2", as create_folder leaves them.
InitLoaded ==
    /\ folders = <<FinishFolder(Folder("t1"), Bool(FALSE)), FinishFolder(Folder("t2"), Bool(TRUE))>>
    /\ items = <<>>
    /\ allFolders = <<1, 2>>
    /\ last = NoObservation
    /\ InitScript
    /\ InitConfig

\* The three phrase-creating calls of the scripting API.
NextPhrase ==
    \/ \E a \in PhraseArgs : create_phrase(a)
    \/ \E f \in FolderArgs, ab \in Abbrs : create_abbreviation(f, Str("name"), Str(ab))
    \/ \E f \in FolderArgs, m \in ModLists, k \in KeyArgs : create_hotkey(f, Str("name"), m, k)

SpecPhrase == InitLoaded /\ [][NextPhrase]_vars

\* Hotkeys given with their modifiers in every order: no modifier, two
\* modifiers and three modifiers, with either of two keys.
PermutedModLists ==
    {<<>>,
     <<Str("<alt>"), Str("<ctrl>")>>, <<Str("<ctrl>"), Str("<alt>")>>,
     <<Str("<alt>"), Str("<ctrl>"), Str("<shift>")>>, <<Str("<alt>"), Str("<shift>"), Str("<ctrl>")>>,
     <<Str("<ctrl>"), Str("<alt>"), Str("<shift>")>>, <<Str("<ctrl>"), Str("<shift>"), Str("<alt>")>>,
     <<Str("<shift>"), Str("<alt>"), Str("<ctrl>")>>, <<Str("<shift>"), Str("<ctrl>"), Str("<alt>")>>}
HotkeyKeys == {Str("k"), Str("j")}
HotkeyPhraseArgs ==
    {[DefaultPhraseArgs(FolderRef(1)) EXCEPT
          !.hotkey = [type |-> "tuple", v |-> <<[type |-> "list", v |-> m], k>>]] :
        m \in PermutedModLists, k \in HotkeyKeys}

\* Hotkeys created through the scripting API and looked up in the configuration.
NextHotkey ==
    \/ \E a \in HotkeyPhraseArgs : create_phrase(a)
    \/ \E m \in PermutedModLists, k \in HotkeyKeys : create_hotkey(FolderRef(1), Str("name"), m, k)
    \/ \E m \in PermutedModLists, k \in HotkeyKeys : call_get_item_with_hotkey(m, k)
    \/ \E i \in 1..Len(items), m \in PermutedModLists, k \in HotkeyKeys :
           call_item_has_same_hotkey(i, m, k)

SpecHotkey == InitLoaded /\ [][NextHotkey]_vars

\* The window-filter dialog as the user filled it in: its filter text (empty,
\* two valid expressions, an invalid one) and its recursive check box.
FilterTexts == {"", "konsole", "Chrome*", InvalidRegex}
Dialogs ==
    {[filter_text |-> Str(t), is_recursive |-> Bool(r)] : t \in FilterTexts, r \in BOOLEAN}
FilterPhraseArgs ==
    {[DefaultPhraseArgs(FolderRef(1)) EXCEPT !.window_filter = w] :
        w \in {NoneOf(""), Str("konsole")}}

\* Phrases are created, some with a window filter, and their filters edited
\* in the dialog of either front end.
NextFilter ==
    \/ \E a \in FilterPhraseArgs : create_phrase(a)
    \/ \E d \in Dialogs, i \in 1..Len(items) : save(d, i)
    \/ \E d \in Dialogs, i \in 1..Len(items) : save_item_filter(d, i)

SpecFilter == InitLoaded /\ [][NextFilter]_vars

\* The values validateHotkey is given.  An item of a modifier list: a str, a
\* Key or an int.
KeyOf(k) == [type |-> "Key", v |-> k]
ItemValues == {Str("<ctrl>"), KeyOf("<f12>"), IntOf("")}
ListOf(seq) == [type |-> "list", v |-> seq]
TupleOf(seq) == [type |-> "tuple", v |-> seq]
\* An element of the tuple: a list of items, a bare item, or None.
ModifierLists == UNION {[1..n -> ItemValues] : n \in 0..MaxModifiers}
ElementValues == {ListOf(m) : m \in ModifierLists} \cup ItemValues \cup {NoneOf("")}
\* None; the tuples of length 0 to 2 over the elements and some of length 3;
\* and values that are no tuple: a list of two elements, a str, an int.
HotkeyShapes ==
    {NoneOf(<<>>)}
    \cup {TupleOf(t) : t \in UNION {[1..n -> ElementValues] : n \in 0..2}}
    \cup {TupleOf(t) : t \in [1..3 -> {ListOf(<<Str("<ctrl>")>>), Str("<ctrl>")}]}
    \cup {ListOf(t) : t \in [1..2 -> {ListOf(<<Str("<ctrl>")>>), Str("<ctrl>")}]}
    \cup {[type |-> "str", v |-> <<>>], IntOf(<<>>)}

NextValidate == \E h \in HotkeyShapes : call_validateHotkey(h)

SpecValidate == Init /\ [][NextValidate]_vars

\* The script-facing calls on a new Engine.
TriggerAbbreviations == {NoneOf("")} \cup {Str(s) : s \in Abbrs}
TriggerCharacters == {NoneOf(""), Str(""), Str(" "), Str("\n")}
ReturnValues == {Str("r1"), Str("r2")}

NextScript ==
    \/ \E ab \in TriggerAbbreviations, c \in TriggerCharacters : set_triggered_abbreviation(ab, c)
    \/ get_triggered_abbreviation
    \/ \E val \in ReturnValues : set_return_value(val)
    \/ get_return_value

SpecScript == Init /\ [][NextScript]_vars

\* A configuration loaded from disk: one folder holding scripts and phrases,
\* some with the same description.
Descriptions == {Str("s1"), Str("s2")}
LoadedItem == {Script(d) : d \in Descriptions} \cup {Phrase(d) : d \in Descriptions}
LoadedItems == UNION {[1..n -> LoadedItem] : n \in 0..MaxLoaded}

InitRun ==
    /\ \E loaded \in LoadedItems :
           /\ items = [i \in 1..Len(loaded) |-> [loaded[i] EXCEPT !.parent = 1, !.persisted = 1]]
           /\ folders = <<[FinishFolder(Folder("t1"), Bool(FALSE))
                              EXCEPT !.items = [i \in 1..Len(loaded) |-> i]]>>
    /\ allFolders = <<1>>
    /\ last = NoObservation
    /\ InitScript
    /\ InitConfig

\* The descriptions scripts are asked for by, and the arguments of a macro.
RunDescriptions == Descriptions \cup {NoneOf("")}
MacroArgStrings == {<<>>, <<"a", ",", "b">>}

\* Scripts run from a script and from a phrase macro.
NextRun ==
    \/ \E d \in RunDescriptions : run_script(d)
    \/ \E d \in RunDescriptions, a \in MacroArgStrings :
           run_script_from_macro([name |-> d, args |-> a])
    \/ get_macro_arguments
    \/ get_return_value

SpecRun == InitRun /\ [][NextRun]_vars

\* The configuration file and its backup.
LoadErrors == {"Exception", "OSError"}

NextConfig ==
    \/ \E c \in ConfigContents : save_config(c)
    \/ lose_config
    \/ back_up_config
    \/ restore_backup_config
    \/ \E e \in LoadErrors : recover_config_backup(e)

SpecConfig == Init /\ [][NextConfig]_vars

\* -------------------------------------------------------------------- claims
Range(seq) == {seq[i] : i \in 1..Len(seq)}

\* The abbreviations and the hotkey an item is bound to.
BoundAbbreviations(i) ==
    IF "ABBREVIATION" \in items[i].modes THEN Range(items[i].abbreviations) ELSE {}
HasHotkey(i) == "HOTKEY" \in items[i].modes
AbbreviationInUse(s) == \E i \in 1..Len(items) : s \in BoundAbbreviations(i)
HotkeyInUse(modifiers, key) ==
    \E i \in 1..Len(items) :
        /\ HasHotkey(i)
        /\ Range(items[i].modifiers) = Range(modifiers)
        /\ items[i].hotKey = key

\* The strings a well-formed abbreviations argument gives, and whether a
\* hotkey argument is a (list of modifiers, key) pair.
GivenAbbreviations(a) ==
    IF a.abbreviations.type \in {"str", "list"} /\ ~validateAbbreviations(a.abbreviations)
    THEN {x.v : x \in Range(a.abbreviations.v)} ELSE {}
GivesHotkey(a) == a.hotkey.type = "tuple" /\ ~validateHotkey(a.hotkey)

\* The call names an abbreviation or a hotkey some existing item is bound to.
DuplicateBinding(a) ==
    \/ \E s \in GivenAbbreviations(a) : AbbreviationInUse(s)
    \/ GivesHotkey(a) /\ HotkeyInUse(a.hotkey.v[1].v, a.hotkey.v[2])

\* C1: a create_phrase call that names an abbreviation or a hotkey combination
\* already in use raises ValueError, adds no phrase, persists nothing, never
\* suspends the monitor and does not call config_altered.
C1_DuplicateBindingRejected ==
    [][(last'.op = "create_phrase" /\ DuplicateBinding(last'.args))
        => /\ last'.result = "ValueError"
           /\ UNCHANGED <<folders, items, allFolders>>
           /\ last'.made = 0 /\ last'.persists = 0
           /\ last'.suspends = 0 /\ last'.altered = 0]_vars

\* A create_phrase call was rejected whose list of abbreviations has its second
\* entry in use, and one whose hotkey is in use with the modifiers in another order.
C1_Witness ==
    /\ last.op = "create_phrase"
    /\ last.result = "ValueError"
    /\ \/ /\ last.args.abbreviations.type = "list"
          /\ ~AbbreviationInUse(last.args.abbreviations.v[1].v)
          /\ AbbreviationInUse(last.args.abbreviations.v[2].v)
       \/ /\ GivesHotkey(last.args)
          /\ HotkeyInUse(last.args.hotkey.v[1].v, last.args.hotkey.v[2])
          /\ \A i \in 1..Len(items) : items[i].modifiers # last.args.hotkey.v[1].v

\* C2: no abbreviation is bound to two different items, and no (modifier set,
\* key) hotkey combination is bound to two different items.
C2_UniqueBindings ==
    \A i, j \in 1..Len(items) :
        i # j =>
            /\ BoundAbbreviations(i) \cap BoundAbbreviations(j) = {}
            /\ ~(/\ HasHotkey(i) /\ HasHotkey(j)
                 /\ items[i].hotKey = items[j].hotKey
                 /\ Range(items[i].modifiers) = Range(items[j].modifiers))

\* Two items hold bindings (abbreviations or hotkeys) and a further call that
\* asked for one of them failed.
C2_Witness ==
    /\ Len(items) = 2
    /\ \A i \in 1..2 : BoundAbbreviations(i) # {} \/ HasHotkey(i)
    /\ last.op \in {"create_phrase", "create_abbreviation", "create_hotkey"}
    /\ last.result \in {"ValueError", "Exception"}

\* Every argument but abbreviations, hotkey and temporary is of the documented
\* type: a Folder, two strings, a SendMode, a valid regex or None, two bools.
PlainArgumentsValid(a) ==
    /\ a.folder.type = "Folder"
    /\ a.name.type = "str" /\ a.contents.type = "str"
    /\ a.send_mode.type = "SendMode"
    /\ a.window_filter.type \in {"str", "NoneType"}
    /\ a.window_filter.type = "str" => a.window_filter.v # InvalidRegex
    /\ a.show_in_system_tray.type = "bool" /\ a.always_prompt.type = "bool"

\* A call that failed left the state as it was, so whether it named a binding
\* in use can be read off the state after it.
FailedOnDuplicate(a) == last.result # "ok" /\ DuplicateBinding(a)

\* C3: create_phrase called with a temporary folder and otherwise valid
\* arguments succeeds, and the phrase is temporary and not persisted, whatever
\* the value of the temporary argument.
C3_TemporaryFolderMakesPhraseTemporary ==
    (/\ last.op = "create_phrase"
     /\ PlainArgumentsValid(last.args)
     /\ ~validateAbbreviations(last.args.abbreviations)
     /\ ~validateHotkey(last.args.hotkey)
     /\ last.args.temporary.type = "bool"
     /\ folders[last.args.folder.v].temporary
     /\ ~FailedOnDuplicate(last.args))
    => /\ last.result = "ok"
       /\ last.made # 0
       /\ items[last.made].temporary
       /\ items[last.made].persisted = 0
       /\ last.persists = 0

\* The required folder, name or contents is missing or of another type, or an
\* optional send_mode, window_filter, show_in_system_tray, always_prompt or
\* temporary is given with another type.
InvalidParameter(a) ==
    \/ a.folder.type # "Folder"
    \/ a.name.type # "str"
    \/ a.contents.type # "str"
    \/ a.send_mode.type # "SendMode"
    \/ a.window_filter.type \notin {"str", "NoneType"}
    \/ a.show_in_system_tray.type # "bool"
    \/ a.always_prompt.type # "bool"
    \/ a.temporary.type # "bool"

\* C6: create_phrase raises ValueError, and no other exception, before it
\* suspends the monitor or creates anything, whenever a parameter is invalid
\* (a required argument that is None included).
C6_InvalidParameterRaisesValueError ==
    (last.op = "create_phrase" /\ InvalidParameter(last.args))
    => /\ last.result = "ValueError"
       /\ last.suspends = 0
       /\ last.made = 0

\* The abbreviations argument is a string or an iterable of strings.
StringOrIterableOfStrings(abbreviations) ==
    /\ abbreviations.type \in {"str", "list", "tuple"}
    /\ \A x \in Range(abbreviations.v) : x.type = "str"

\* C7: create_phrase accepts abbreviations given as a string, a list of strings
\* or any other iterable of strings and assigns each to the new phrase; it
\* raises ValueError when the argument is given and is neither.
C7_IterableAbbreviationsAccepted ==
    (/\ last.op = "create_phrase"
     /\ PlainArgumentsValid(last.args)
     /\ ~validateHotkey(last.args.hotkey)
     /\ last.args.temporary.type = "bool"
     /\ folders[last.args.folder.v].temporary => last.args.temporary.v
     /\ last.args.abbreviations.type # "NoneType")
    => IF StringOrIterableOfStrings(last.args.abbreviations)
       THEN \/ /\ last.result = "ok"
               /\ items[last.made].abbreviations =
                      [i \in 1..Len(last.args.abbreviations.v) |-> last.args.abbreviations.v[i].v]
            \/ /\ last.result = "ValueError"
               /\ \/ \E x \in Range(last.args.abbreviations.v) : AbbreviationInUse(x.v)
                  \/ GivesHotkey(last.args)
                     /\ HotkeyInUse(last.args.hotkey.v[1].v, last.args.hotkey.v[2])
       ELSE last.result = "ValueError" /\ last.made = 0

\* The new folder or phrase of the last call, when it constructed one.
MadeFolder == folders[last.made]
MadePhrase == items[last.made]

\* C4: a folder or phrase created with temporary=True is marked temporary and
\* persist() is never called on it; one successfully created with
\* temporary=False is persisted exactly once.
C4_TemporaryNeverPersisted ==
    /\ \A i \in 1..Len(folders) : folders[i].temporary => folders[i].persisted = 0
    /\ \A i \in 1..Len(items) : items[i].persisted = IF items[i].temporary THEN 0 ELSE 1
    /\ (last.op = "create_folder" /\ last.made # 0 /\ last.args.temporary.v)
       => MadeFolder.temporary /\ MadeFolder.persisted = 0 /\ last.persists = 0
    /\ (last.op = "create_folder" /\ last.made # 0 /\ last.result = "ok" /\ ~last.args.temporary.v)
       => ~MadeFolder.temporary /\ MadeFolder.persisted = 1 /\ last.persists = 1
    /\ (last.op = "create_phrase" /\ last.made # 0 /\ last.args.temporary.v)
       => MadePhrase.temporary /\ MadePhrase.persisted = 0 /\ last.persists = 0
    /\ (last.op = "create_phrase" /\ last.made # 0 /\ ~last.args.temporary.v)
       => ~MadePhrase.temporary /\ MadePhrase.persisted = 1 /\ last.persists = 1

\* A temporary phrase was created in a temporary subfolder of a persisted folder.
C4_Witness ==
    /\ last.op = "create_phrase" /\ last.made # 0
    /\ MadePhrase.temporary /\ MadePhrase.persisted = 0
    /\ folders[MadePhrase.parent].temporary
    /\ \E i \in 1..Len(folders) :
           /\ folders[i].persisted = 1
           /\ MadePhrase.parent \in Range(folders[i].folders)

\* The arguments of a create_folder call are of the documented types.
FolderArgumentsValid(a) ==
    /\ a.title.type = "str"
    /\ a.parent_folder.type \in {"Folder", "NoneType"}
    /\ a.temporary.type = "bool"

\* The folders among which the call looks for the title, and the positions of
\* those that carry it.
FoldersSearched(a) ==
    IF a.parent_folder.type = "NoneType" THEN allFolders
    ELSE folders[a.parent_folder.v].folders
TitlePositions(a) ==
    {i \in 1..Len(FoldersSearched(a)) : folders[FoldersSearched(a)[i]].title = a.title.v}
FirstTitled(a) ==
    FoldersSearched(a)[CHOOSE i \in TitlePositions(a) : \A j \in TitlePositions(a) : i <= j]

C8_TriggeredAbbreviationReturned ==
    scriptLast.op = "get_triggered_abbreviation"
    => scriptLast.result = "ok" /\ scriptLast.ret = triggerGiven

\* C9: after _back_up_config the backup file exists with the content of the
\* configuration file, after _restore_backup_config the configuration file
\* exists with the content of the backup file, neither changes the file it
\* copies from, and a back-up, loss of the configuration file and a restore
\* yield the original configuration content.
C9_BackupRestoreInverse ==
    /\ (cfgLast.op = "_back_up_config" /\ cfgLast.config_before # Absent)
       => /\ cfgLast.result = "ok"
          /\ CONFIG_FILE_BACKUP # Absent
          /\ CONFIG_FILE_BACKUP = cfgLast.config_before
          /\ CONFIG_FILE = cfgLast.config_before
    /\ (cfgLast.op = "_restore_backup_config" /\ cfgLast.backup_before # Absent)
       => /\ cfgLast.result = "ok"
          /\ CONFIG_FILE # Absent
          /\ CONFIG_FILE = cfgLast.backup_before
          /\ CONFIG_FILE_BACKUP = cfgLast.backup_before
    /\ roundTrip.stage = "restored"
       => CONFIG_FILE = roundTrip.content /\ CONFIG_FILE # Absent

\* A configuration of content json2 was backed up, lost and restored from the
\* backup.
C9_Witness ==
    /\ roundTrip.stage = "restored"
    /\ cfgLast.op = "_restore_backup_config"
    /\ cfgLast.config_before = Absent
    /\ CONFIG_FILE = "json2"

\* C10: _recover_config_backup invokes _restore_backup_config exactly once and
\* does not raise when the backup file exists (the configuration file then
\* holds the backup's content); without a backup file it raises the error it
\* was given again and creates no configuration file.
C10_RecoverConfigBackup ==
    cfgLast.op = "_recover_config_backup"
    => IF cfgLast.backup_before # Absent
       THEN /\ cfgLast.restores = 1
            /\ cfgLast.result = "ok"
            /\ CONFIG_FILE = cfgLast.backup_before
       ELSE /\ cfgLast.restores = 0
            /\ cfgLast.result = cfgLast.error
            /\ CONFIG_FILE = cfgLast.config_before
            /\ CONFIG_FILE_BACKUP = Absent

\* A recovery restored the backup over a missing configuration file.
C10_Witness ==
    /\ cfgLast.op = "_recover_config_backup"
    /\ cfgLast.backup_before # Absent
    /\ cfgLast.config_before = Absent
    /\ cfgLast.restores = 1

\* A recovery without a backup raised the OSError it was given.
C10_WitnessNoBackup ==
    /\ cfgLast.op = "_recover_config_backup"
    /\ cfgLast.backup_before = Absent
    /\ cfgLast.config_before = Absent
    /\ cfgLast.result = "OSError"

\* The orders in which the modifiers of the list can be given.
Reorderings(modifiers) ==
    {m \in PermutedModLists : Len(m) = Len(modifiers) /\ Range(m) = Range(modifiers)}

C12_FilterSaved ==
    [][last'.op \in {"save", "save_item_filter"}
       => LET i == last'.args.item
              dialog == last'.args.dialog
          IN /\ last'.result = "ok"
             /\ Len(items') = Len(items)
             /\ items'[i].isRecursive = dialog.is_recursive.v
             /\ items'[i].windowInfoRegex =
                    IF dialog.filter_text.v = InvalidRegex
                    THEN items[i].windowInfoRegex ELSE dialog.filter_text
             /\ items'[i] = [items[i] EXCEPT !.isRecursive = items'[i].isRecursive,
                                             !.windowInfoRegex = items'[i].windowInfoRegex]
             /\ \A j \in 1..Len(items) : j # i => items'[j] = items[j]]_vars

\* A dialog with an invalid regex and the recursive box ticked was saved on an
\* item: the item holds the regex "konsole" it had and is recursive.
C12_Witness ==
    /\ last.op = "save"
    /\ last.result = "ok"
    /\ last.args.dialog.filter_text.v = InvalidRegex
    /\ last.args.dialog.is_recursive.v
    /\ items[last.args.item].windowInfoRegex = Str("konsole")
    /\ items[last.args.item].isRecursive

\* The items that are Scripts with the description.
ScriptsDescribed(description) ==
    {i \in 1..Len(items) : items[i].class = "Script" /\ items[i].description = description}

\* C13: run_script(description) calls runner.run_subscript exactly once, on
\* the last item of allItems that is a Script with that description, and raises
\* an Exception without running anything when no Script has the description;
\* an item that is not a Script is never run.
C13_RunScript ==
    scriptLast.op = "run_script"
    => LET matching == ScriptsDescribed(scriptLast.args[1]) IN
       /\ \A k \in 1..Len(scriptLast.ret) : items[scriptLast.ret[k]].class = "Script"
       /\ IF matching # {}
          THEN /\ scriptLast.result = "ok"
               /\ Len(scriptLast.ret) = 1
               /\ scriptLast.ret[1] \in matching
               /\ \A i \in matching : i <= scriptLast.ret[1]
          ELSE /\ scriptLast.result = "Exception"
               /\ scriptLast.ret = <<>>

\* Two Scripts and then a Phrase carry the description: the second Script ran.
C13_Witness ==
    /\ scriptLast.op = "run_script"
    /\ Len(items) = 3
    /\ \A i \in 1..3 : items[i].description = scriptLast.args[1]
    /\ items[1].class = "Script" /\ items[2].class = "Script" /\ items[3].class = "Phrase"
    /\ scriptLast.ret = <<2>>

\* Only a Phrase carries the description: run_script raised and ran nothing.
C13_WitnessNoScript ==
    /\ scriptLast.op = "run_script"
    /\ scriptLast.result = "Exception"
    /\ \E i \in 1..Len(items) : items[i].description = scriptLast.args[1]

\* The value is None, or a tuple of length 2 of a list in which every item is
\* a str or a Key and of a str or a Key.
DocumentedHotkey(hotkey) ==
    \/ hotkey.type = "NoneType"
    \/ /\ hotkey.type = "tuple"
       /\ Len(hotkey.v) = 2
       /\ hotkey.v[1].type = "list"
       /\ \A x \in Range(hotkey.v[1].v) : x.type \in {"str", "Key"}
       /\ hotkey.v[2].type \in {"str", "Key"}

\* C14: validateHotkey accepts exactly None and the 2-tuples of a list
\* (possibly empty) of str or Key items and a str or Key; every other value
\* raises ValueError.
C14_ValidateHotkeyShapes ==
    last.op = "validateHotkey"
    => IF DocumentedHotkey(last.args.hotkey)
       THEN last.result = "ok"
       ELSE last.result = "ValueError"

\* A 2-tuple whose first element is a bare str rather than a list, with a
\* valid key, was refused.
C14_Witness ==
    /\ last.op = "validateHotkey"
    /\ last.result = "ValueError"
    /\ last.args.hotkey.type = "tuple"
    /\ Len(last.args.hotkey.v) = 2
    /\ last.args.hotkey.v[1].type = "str"
    /\ last.args.hotkey.v[2].type = "Key"

\* A 2-tuple of the empty list and a key was accepted.
C14_WitnessEmptyList ==
    /\ last.op = "validateHotkey"
    /\ last.result = "ok"
    /\ last.args.hotkey.type = "tuple"
    /\ last.args.hotkey.v[1] = ListOf(<<>>)
====
